---- MODULE Spec2Model ----
(***************************************************************************)
(* Model of src/dbt/handler.py: the AWS Lambda entry point that patches    *)
(* multiprocessing.synchronize, loads dbt, runs one dbt command per        *)
(* invocation and (optionally) mirrors /tmp/target to S3.                  *)
(*                                                                         *)
(* Five specifications share one set of variables:                         *)
(*   Spec      module load followed by any number of handler invocations   *)
(*   SpecLive  Spec with a started invocation running to its end           *)
(*   SpecSync  direct calls of restore_target_from_s3 / sync_target_to_s3  *)
(*   SpecEnv   SpecSync with ENVIRONMENT reassigned after the load         *)
(*   SpecShim  threads using the four replacement primitives               *)
(***************************************************************************)
EXTENDS Integers, Sequences, FiniteSets, TLC

(***************************************************************************)
(* Bounds                                                                  *)
(***************************************************************************)
\* longest "command" / "cli_args" list of a request
MaxTokens == 1
\* file contents are versions 1..MaxVer; 0 is "no such file"
MaxVer == 2
\* largest initial count a semaphore is constructed with
MaxValue == 2
\* most acquisitions of one primitive a thread holds at once
MaxDepth == 2

(***************************************************************************)
(* Values                                                                  *)
(***************************************************************************)
Unset == "<unset>"
None == "<none>"
Tokens == {"run", "--select"}
Keys == {"command", "cli_args"}
Files == {"manifest.json", "run_results.json"}
EnvironmentValues == {Unset, "dev", "prod"}
BucketValues == {Unset, "", "my-bucket"}
Threads == {"t1", "t2"}
Slots == {"a", "b"}

RECURSIVE SeqsUpTo(_, _)
SeqsUpTo(S, n) ==
    IF n = 0 THEN {<<>>}
    ELSE LET shorter == SeqsUpTo(S, n - 1)
         IN  shorter \cup {Append(s, x) : s \in {q \in shorter : Len(q) = n - 1}, x \in S}

TokenSeqs == SeqsUpTo(Tokens, MaxTokens)
\* a request: each of the two keys is absent or holds a list of strings
Events == UNION {[D -> TokenSeqs] : D \in SUBSET Keys}
\* a directory: file name -> version, 0 when the file does not exist
Dirs == [Files -> 0..MaxVer]
EmptyDir == [f \in Files |-> 0]
\* an S3 prefix s3://<bucket>/<environment>/target/
Prefixes == (BucketValues \ {Unset}) \X (EnvironmentValues \ {Unset})

VARIABLES
    \* module load
    loadpc,          \* next module-level statement to run
    synchronize,     \* multiprocessing.synchronize: constructor name -> class bound to it
    patchCalls,      \* number of completed patch_multiprocessing() calls
    dbtImported,     \* dbt modules imported so far
    credentials,     \* where dbt.adapters.base.Credentials came from
    dirsMade,        \* directories created by os.makedirs
    environ,         \* os.environ
    runner,          \* the module-level name `dbt` after line 112
    default_args,    \* the module-level list default_args
    \* handler invocation
    hpc,             \* position of the current invocation
    event,           \* the request of the current invocation
    command,         \* local `command`
    cli_args,        \* local `cli_args`
    invokedArgs,     \* argument list handed to dbt.invoke
    toolCalls,       \* dbt.invoke calls made by the current invocation
    invocations,     \* invocations started in this process (counted to 2)
    res,             \* dbtRunnerResult of the current invocation
    result,          \* value returned by handler, None if none
    exc,             \* exception raised by handler to its caller, None if none
    \* state continuity
    targetDir,       \* /tmp/target
    baseDir,         \* /tmp/target-base
    remote,          \* S3: prefix -> directory
    lastCall,        \* last state-continuity operation that ran
    callStatus,      \* how that operation ended: "returned" or "raised"
    callTransfers,   \* aws s3 sync processes started by that operation
    callLog,         \* outcome line that operation printed
    syncRuns,        \* sync calls in a row that logged success (counted to 2)
    hTransfers,      \* outbound transfers started by the current invocation
    \* primitives of multiprocessing.synchronize in use by worker threads
    prims,           \* slot -> the primitive object constructed there
    holds,           \* thread -> slot -> acquisitions it has not yet released
    tstatus,         \* thread -> "running", or the exception that ended it
    ownedCheck       \* the last _is_owned() call: the lock's state then, the answer

loadVars == <<loadpc, synchronize, patchCalls, dbtImported, credentials,
              dirsMade, environ, runner, default_args>>
handlerVars == <<hpc, event, command, cli_args, invokedArgs, toolCalls, res,
                 result, exc, hTransfers, invocations>>
storeVars == <<targetDir, baseDir, remote>>
callVars == <<lastCall, callStatus, callTransfers, callLog, syncRuns>>
shimVars == <<prims, holds, tstatus, ownedCheck>>
vars == <<loadVars, handlerVars, storeVars, callVars, shimVars>>

(***************************************************************************)
(* os.getenv                                                               *)
(***************************************************************************)
Getenv(name, default) ==
    IF environ[name] = Unset THEN default ELSE environ[name]

(***************************************************************************)
(* Module load: the module-level statements, in file order                 *)
(***************************************************************************)
PrimitiveKinds == {"RLock", "Lock", "Semaphore", "BoundedSemaphore"}
\* the class each constructor name is bound to once patch_multiprocessing ran
MockClass(kind) == "Mock" \o kind

\* lines 1-5: import os, multiprocessing, threading, dbt.adapters.base, subprocess
LoadImports ==
    /\ loadpc = "imports"
    /\ dbtImported' = dbtImported \cup {"dbt.adapters.base"}
    /\ loadpc' = "patch"
    /\ UNCHANGED <<synchronize, patchCalls, credentials, dirsMade, environ,
                   runner, default_args>>
    /\ UNCHANGED <<handlerVars, storeVars, callVars, shimVars>>

\* lines 9-82, called at line 85: rebind the four constructors
patch_multiprocessing ==
    /\ synchronize' = [k \in PrimitiveKinds |-> MockClass(k)]
    /\ patchCalls' = patchCalls + 1

LoadPatch ==
    /\ loadpc = "patch"
    /\ patch_multiprocessing
    /\ loadpc' = "credentials"
    /\ UNCHANGED <<dbtImported, credentials, dirsMade, environ, runner, default_args>>
    /\ UNCHANGED <<handlerVars, storeVars, callVars, shimVars>>

\* lines 88-96: the Credentials shim; which import succeeds depends on the
\* installed dbt version
LoadCredentials ==
    /\ loadpc = "credentials"
    /\ \/ /\ credentials' = "dbt.adapters.base"
          /\ UNCHANGED dbtImported
       \/ /\ credentials' = "dbt.adapters.contracts.connection"
          /\ dbtImported' = dbtImported \cup {"dbt.adapters.contracts.connection"}
       \/ /\ credentials' = "missing"
          /\ UNCHANGED dbtImported
    /\ loadpc' = "runnerImport"
    /\ UNCHANGED <<synchronize, patchCalls, dirsMade, environ, runner, default_args>>
    /\ UNCHANGED <<handlerVars, storeVars, callVars, shimVars>>

\* line 98: from dbt.cli.main import dbtRunner, dbtRunnerResult
LoadRunnerImport ==
    /\ loadpc = "runnerImport"
    /\ dbtImported' = dbtImported \cup {"dbt.cli.main"}
    /\ loadpc' = "makedirs"
    /\ UNCHANGED <<synchronize, patchCalls, credentials, dirsMade, environ,
                   runner, default_args>>
    /\ UNCHANGED <<handlerVars, storeVars, callVars, shimVars>>

\* lines 101-103: os.makedirs(..., exist_ok=True)
LoadMakedirs ==
    /\ loadpc = "makedirs"
    /\ dirsMade' = dirsMade \cup {"/tmp/logs", "/tmp/target", "/tmp/target-base"}
    /\ loadpc' = "environ"
    /\ UNCHANGED <<synchronize, patchCalls, dbtImported, credentials, environ,
                   runner, default_args>>
    /\ UNCHANGED <<handlerVars, storeVars, callVars, shimVars>>

\* lines 106-109: pin dbt's paths to /tmp
LoadEnviron ==
    /\ loadpc = "environ"
    /\ environ' = [environ EXCEPT !["DBT_LOG_PATH"] = "/tmp/logs",
                                  !["DBT_TARGET_PATH"] = "/tmp/target",
                                  !["DBT_PROFILES_DIR"] = ".",
                                  !["DBT_USER_CONFIG_DIR"] = "/tmp"]
    /\ loadpc' = "runner"
    /\ UNCHANGED <<synchronize, patchCalls, dbtImported, credentials, dirsMade,
                   runner, default_args>>
    /\ UNCHANGED <<handlerVars, storeVars, callVars, shimVars>>

\* line 112: dbt = dbtRunner()
LoadRunner ==
    /\ loadpc = "runner"
    /\ runner' = "dbtRunner"
    /\ loadpc' = "default_args"
    /\ UNCHANGED <<synchronize, patchCalls, dbtImported, credentials, dirsMade,
                   environ, default_args>>
    /\ UNCHANGED <<handlerVars, storeVars, callVars, shimVars>>

\* lines 115-126 with the two target selectors in the other order
DefaultArgsSwapped ==
    <<"--target", Getenv("ENVIRONMENT", "dev"),
      "--log-path", "/tmp/logs",
      "--target-path", "/tmp/target",
      "--target", "dev",
      "--profiles-dir", ".">>

\* lines 115-126
DefaultArgs ==
    <<"--target", "dev",
      "--log-path", "/tmp/logs",
      "--target-path", "/tmp/target",
      "--target", Getenv("ENVIRONMENT", "dev"),
      "--profiles-dir", ".">>

LoadDefaultArgs ==
    /\ loadpc = "default_args"
    /\ default_args' = DefaultArgs
    /\ loadpc' = "loaded"
    /\ UNCHANGED <<synchronize, patchCalls, dbtImported, credentials, dirsMade,
                   environ, runner>>
    /\ UNCHANGED <<handlerVars, storeVars, callVars, shimVars>>

(***************************************************************************)
(* State continuity: restore_target_from_s3 and sync_target_to_s3          *)
(***************************************************************************)
\* What subprocess.run(["aws", "s3", "sync", ...], check=False) can do: the
\* process exits with a return code, or launching/running it raises.
ExitCodes == {0, 1}
RaisedBySubprocess == {"FileNotFoundError", "UnicodeDecodeError"}
TransferOutcomes ==
    [raises : {FALSE}, rc : ExitCodes, exc : {None}]
        \cup [raises : {TRUE}, rc : {0}, exc : RaisedBySubprocess]

\* classes an `except <clause>` catches
CaughtBy(clause) ==
    CASE clause = "Exception" -> RaisedBySubprocess \cup {"CalledProcessError"}
      [] clause = "CalledProcessError" -> {"CalledProcessError"}
      [] OTHER -> {}

\* lines 137 and 179: `if not dbt_state_bucket` is the not-configured branch
BucketUnsetOnly(bucket) == bucket # Unset
BucketConfigured(bucket) == bucket \notin {Unset, ""}

\* lines 143 and 185: f"s3://{dbt_state_bucket}/{environment}/target/"
S3Path(bucket, environment) == <<bucket, environment>>

\* aws s3 sync SRC DST --delete, having handled the files in `done`:
\* DST's copy of each becomes SRC's, a file SRC lacks is removed
MirrorWithDelete(src, dst, done) ==
    [f \in Files |-> IF f \in done THEN src[f] ELSE dst[f]]

\* aws s3 sync SRC DST, having handled the files in `done`: files of SRC are
\* copied over, files only DST has stay
CopyOver(src, dst, done) ==
    [f \in Files |-> IF f \in done /\ src[f] # 0 THEN src[f] ELSE dst[f]]

\* the sets of files a transfer may have handled when it ends as o: all of
\* them when it exits 0, any part of them when it fails
Handled(o) ==
    IF o.raises THEN {{}}
    ELSE IF o.rc = 0 THEN {Files}
    ELSE SUBSET Files

\* lines 162-166
RestoreLog(rc) ==
    IF rc = 0 THEN "restored" ELSE "INFO: no previous state"

\* lines 205-210
SyncLogInverted(rc) ==
    IF rc # 0 THEN "synced" ELSE "WARNING: sync failed"
SyncLog(rc) ==
    IF rc = 0 THEN "synced" ELSE "WARNING: sync failed"

\* the except clause of lines 167 and 211
ExceptClauseNarrow == "CalledProcessError"
ExceptClause == "Exception"

\* lines 129-168 with the download written into /tmp/target
restore_into_target(o, done) ==
    LET dbt_state_bucket == Getenv("DBT_STATE_BUCKET", Unset)
        environment == Getenv("ENVIRONMENT", "dev")
        s3_path == S3Path(dbt_state_bucket, environment)
    IN  /\ lastCall' = "restore"
        /\ syncRuns' = 0
        /\ IF ~BucketConfigured(dbt_state_bucket)
           THEN /\ callLog' = "INFO: bucket not set"
                /\ callTransfers' = 0
                /\ callStatus' = "returned"
                /\ UNCHANGED storeVars
           ELSE /\ callTransfers' = 1
                /\ IF o.raises
                   THEN /\ UNCHANGED storeVars
                        /\ IF o.exc \in CaughtBy(ExceptClause)
                           THEN callLog' = "INFO: restore failed" /\ callStatus' = "returned"
                           ELSE callLog' = None /\ callStatus' = "raised"
                   ELSE /\ targetDir' = CopyOver(remote[s3_path], targetDir, done)
                        /\ UNCHANGED <<baseDir, remote>>
                        /\ callLog' = RestoreLog(o.rc)
                        /\ callStatus' = "returned"

\* lines 129-168; o is what the transfer does, done the files it handled
restore_target_from_s3(o, done) ==
    LET dbt_state_bucket == Getenv("DBT_STATE_BUCKET", Unset)
        environment == Getenv("ENVIRONMENT", "dev")
        s3_path == S3Path(dbt_state_bucket, environment)
    IN  /\ lastCall' = "restore"
        /\ syncRuns' = 0
        /\ IF ~BucketConfigured(dbt_state_bucket)
           THEN /\ callLog' = "INFO: bucket not set"
                /\ callTransfers' = 0
                /\ callStatus' = "returned"
                /\ UNCHANGED storeVars
           ELSE /\ callTransfers' = 1
                /\ IF o.raises
                   THEN /\ UNCHANGED storeVars
                        /\ IF o.exc \in CaughtBy(ExceptClause)
                           THEN callLog' = "INFO: restore failed" /\ callStatus' = "returned"
                           ELSE callLog' = None /\ callStatus' = "raised"
                   ELSE /\ baseDir' = CopyOver(remote[s3_path], baseDir, done)
                        /\ UNCHANGED <<targetDir, remote>>
                        /\ callLog' = RestoreLog(o.rc)
                        /\ callStatus' = "returned"

\* lines 171-212
sync_target_to_s3(o, done) ==
    LET dbt_state_bucket == Getenv("DBT_STATE_BUCKET", Unset)
        environment == Getenv("ENVIRONMENT", "dev")
        s3_path == S3Path(dbt_state_bucket, environment)
    IN  /\ lastCall' = "sync"
        /\ IF ~BucketConfigured(dbt_state_bucket)
           THEN /\ callLog' = "WARNING: bucket not set"
                /\ callTransfers' = 0
                /\ callStatus' = "returned"
                /\ UNCHANGED storeVars
           ELSE /\ callTransfers' = 1
                /\ IF o.raises
                   THEN /\ UNCHANGED storeVars
                        /\ IF o.exc \in CaughtBy(ExceptClause)
                           THEN callLog' = "ERROR: sync failed" /\ callStatus' = "returned"
                           ELSE callLog' = None /\ callStatus' = "raised"
                   ELSE /\ remote' = [remote EXCEPT ![s3_path] =
                                        MirrorWithDelete(targetDir, @, done)]
                        /\ UNCHANGED <<targetDir, baseDir>>
                        /\ callLog' = SyncLog(o.rc)
                        /\ callStatus' = "returned"
        /\ syncRuns' = IF callLog' # "synced" THEN 0
                       ELSE IF lastCall = "sync" /\ syncRuns >= 1 THEN 2
                       ELSE 1

(***************************************************************************)
(* The replacement primitives (lines 12-77), used by worker threads        *)
(***************************************************************************)
\* the threading object each replacement class wraps: lines 14, 33, 49, 65
UnderlyingAllLock(kind) ==
    CASE kind = "RLock" -> "threading.Lock"
      [] kind = "Lock" -> "threading.Lock"
      [] kind = "Semaphore" -> "threading.Semaphore"
      [] kind = "BoundedSemaphore" -> "threading.BoundedSemaphore"
Underlying(kind) ==
    CASE kind = "RLock" -> "threading.RLock"
      [] kind = "Lock" -> "threading.Lock"
      [] kind = "Semaphore" -> "threading.Semaphore"
      [] kind = "BoundedSemaphore" -> "threading.BoundedSemaphore"

NoPrim ==
    [cls |-> None, impl |-> None, locked |-> FALSE, owner |-> None,
     count |-> 0, value |-> 0, initial |-> 0]

\* __init__ of the four classes: extra arguments are accepted and ignored,
\* `value` is the semaphores' initial count (default 1)
NewPrim(kind, value) ==
    [cls |-> MockClass(kind), impl |-> Underlying(kind), locked |-> FALSE,
     owner |-> None, count |-> 0, value |-> value, initial |-> value]

InitialCounts(kind) ==
    IF kind \in {"Semaphore", "BoundedSemaphore"} THEN 0..MaxValue ELSE {1}

\* an acquire that never waits
CanAcquireNoWait(o, t) == TRUE
\* whether a blocking acquire by thread t returns at once
CanAcquire(o, t) ==
    CASE o.impl = "threading.Lock" -> ~o.locked
      [] o.impl = "threading.RLock" -> o.owner \in {None, t}
      [] o.impl \in {"threading.Semaphore", "threading.BoundedSemaphore"} -> o.value > 0
      [] OTHER -> FALSE

\* __enter__ / acquire: lines 16-17, 22-23, 35-36, 41-42, 51-52, 57-58, 67-68, 73-74
Acquired(o, t) ==
    CASE o.impl = "threading.Lock" -> [o EXCEPT !.locked = TRUE]
      [] o.impl = "threading.RLock" -> [o EXCEPT !.owner = t, !.count = @ + 1]
      [] OTHER -> [o EXCEPT !.value = @ - 1]

\* the exception release raises, None when it succeeds
ReleaseError(o, t) ==
    CASE o.impl = "threading.Lock" -> IF o.locked THEN None ELSE "RuntimeError"
      [] o.impl = "threading.RLock" -> IF o.owner = t THEN None ELSE "RuntimeError"
      [] o.impl = "threading.BoundedSemaphore" ->
            IF o.value >= o.initial THEN "ValueError" ELSE None
      [] OTHER -> None

\* __exit__ / release: lines 19-20, 25-26, 38-39, 44-45, 54-55, 60-61, 70-71, 76-77
Released(o, t) ==
    CASE o.impl = "threading.Lock" -> [o EXCEPT !.locked = FALSE]
      [] o.impl = "threading.RLock" ->
            [o EXCEPT !.count = @ - 1, !.owner = IF o.count = 1 THEN None ELSE t]
      [] OTHER -> [o EXCEPT !.value = @ + 1]

InitShim ==
    /\ prims = [p \in Slots |-> NoPrim]
    /\ holds = [t \in Threads |-> [p \in Slots |-> 0]]
    /\ tstatus = [t \in Threads |-> "running"]
    /\ ownedCheck = [lock |-> "none", value |-> FALSE]

InUse(p) == \E u \in Threads : holds[u][p] > 0

\* multiprocessing.synchronize.<kind>(...) resolves to whatever class the
\* name is bound to (lines 79-82); the original classes need /dev/shm
Construct(t, p, kind, value) ==
    /\ tstatus[t] = "running"
    /\ ~InUse(p)
    /\ IF synchronize[kind] = MockClass(kind)
       THEN /\ prims' = [prims EXCEPT ![p] = NewPrim(kind, value)]
            /\ UNCHANGED tstatus
       ELSE /\ tstatus' = [tstatus EXCEPT ![t] = "OSError"]
            /\ UNCHANGED prims
    /\ UNCHANGED <<holds, ownedCheck>>
    /\ UNCHANGED <<loadVars, handlerVars, storeVars, callVars>>

\* `with p:` entered, or p.acquire(): the thread waits until CanAcquire
Acquire(t, p) ==
    /\ tstatus[t] = "running"
    /\ prims[p] # NoPrim
    /\ holds[t][p] < MaxDepth
    /\ CanAcquire(prims[p], t)
    /\ prims' = [prims EXCEPT ![p] = Acquired(@, t)]
    /\ holds' = [holds EXCEPT ![t][p] = @ + 1]
    /\ UNCHANGED <<tstatus, ownedCheck>>
    /\ UNCHANGED <<loadVars, handlerVars, storeVars, callVars>>

\* the `with p:` block left, or p.release(), by a thread that acquired p
Release(t, p) ==
    /\ tstatus[t] = "running"
    /\ holds[t][p] > 0
    /\ holds' = [holds EXCEPT ![t][p] = @ - 1]
    /\ IF ReleaseError(prims[p], t) = None
       THEN /\ prims' = [prims EXCEPT ![p] = Released(@, t)]
            /\ UNCHANGED tstatus
       ELSE /\ tstatus' = [tstatus EXCEPT ![t] = ReleaseError(prims[p], t)]
            /\ UNCHANGED prims
    /\ UNCHANGED ownedCheck
    /\ UNCHANGED <<loadVars, handlerVars, storeVars, callVars>>

\* an ownership check that looks at the owner
IsOwnedByCaller(o, t) == o.owner = t
\* lines 28-29: MockRLock._is_owned
IsOwned(o, t) == TRUE

\* a thread asks a MockRLock whether it owns it
CheckOwned(t, p) ==
    /\ tstatus[t] = "running"
    /\ prims[p].cls = MockClass("RLock")
    /\ ownedCheck' =
        [lock |-> IF ~InUse(p) THEN "free"
                  ELSE IF holds[t][p] > 0 THEN "caller"
                  ELSE "other",
         value |-> IsOwned(prims[p], t)]
    /\ UNCHANGED <<prims, holds, tstatus>>
    /\ UNCHANGED <<loadVars, handlerVars, storeVars, callVars>>

(***************************************************************************)
(* handler(event, context)                                                 *)
(***************************************************************************)
NoResult == [statusCode |-> 0, body |-> None]
NoRes == [called |-> FALSE, success |-> FALSE]

\* event[key]: a missing key raises KeyError
EventIndex(ev, key, default) ==
    IF key \in DOMAIN ev
    THEN [raised |-> FALSE, value |-> ev[key]]
    ELSE [raised |-> TRUE, value |-> <<>>]
\* lines 246-247: event.get(key, default)
EventGet(ev, key, default) ==
    [raised |-> FALSE, value |-> IF key \in DOMAIN ev THEN ev[key] ELSE default]

\* line 263: 200 if res.success else 500
StatusCodeSwapped(success) == IF success THEN 500 ELSE 200
StatusCode(success) == IF success THEN 200 ELSE 500

\* lines 239-249: a new invocation starts; the restore call of line 243 is
\* commented out, so the request is parsed right away
HandlerStart ==
    /\ loadpc = "loaded"
    /\ hpc \in {"IDLE", "DONE", "FAILED"}
    /\ \E ev \in Events :
        LET c == EventGet(ev, "command", <<"build">>)
            a == EventGet(ev, "cli_args", <<"--select", "+my_second_dbt_model">>)
        IN  /\ event' = ev
            /\ IF c.raised \/ a.raised
               THEN /\ hpc' = "FAILED"
                    /\ exc' = "KeyError"
                    /\ command' = <<>>
                    /\ cli_args' = <<>>
               ELSE /\ hpc' = "INVOKE"
                    /\ exc' = None
                    /\ command' = c.value
                    /\ cli_args' = a.value
    /\ invokedArgs' = <<>>
    /\ toolCalls' = 0
    /\ invocations' = IF invocations < 2 THEN invocations + 1 ELSE 2
    /\ hTransfers' = 0
    /\ res' = NoRes
    /\ result' = NoResult
    /\ UNCHANGED <<loadVars, storeVars, callVars, shimVars>>

\* line 252 written as default_args.extend(cli_args); dbt.invoke(command + default_args)
HandlerInvokeExtends ==
    /\ hpc = "INVOKE"
    /\ \E success \in BOOLEAN, out \in Dirs :
        /\ res' = [called |-> TRUE, success |-> success]
        /\ targetDir' = out
        /\ hpc' = IF success THEN "SUCCESS" ELSE "FAILURE"
    /\ default_args' = default_args \o cli_args
    /\ invokedArgs' = command \o default_args'
    /\ toolCalls' = toolCalls + 1
    /\ UNCHANGED <<event, command, cli_args, result, exc, hTransfers, invocations>>
    /\ UNCHANGED <<loadpc, synchronize, patchCalls, dbtImported, credentials,
                   dirsMade, environ, runner>>
    /\ UNCHANGED <<baseDir, remote, callVars, shimVars>>

\* line 252: res = dbt.invoke(command + default_args + cli_args); the tool
\* reports success or failure and leaves its artifacts in /tmp/target
HandlerInvoke ==
    /\ hpc = "INVOKE"
    /\ \E success \in BOOLEAN, out \in Dirs :
        /\ res' = [called |-> TRUE, success |-> success]
        /\ targetDir' = out
        /\ hpc' = IF success THEN "SUCCESS" ELSE "FAILURE"
    /\ invokedArgs' = command \o default_args \o cli_args
    /\ toolCalls' = toolCalls + 1
    /\ UNCHANGED <<event, command, cli_args, result, exc, hTransfers, invocations>>
    /\ UNCHANGED <<loadVars, baseDir, remote, callVars, shimVars>>

\* lines 254-258 and 263: the success branch; the sync call of line 258 is
\* commented out, so nothing is transferred, and the result is returned
HandlerSuccess ==
    /\ hpc = "SUCCESS"
    /\ result' = [statusCode |-> StatusCode(res.success), body |-> "DBT build completed"]
    /\ hpc' = "DONE"
    /\ UNCHANGED <<event, command, cli_args, invokedArgs, toolCalls, res, exc,
                   hTransfers, invocations>>
    /\ UNCHANGED <<loadVars, storeVars, callVars, shimVars>>

\* line 263 reached from the failure branch
HandlerFailureReturns ==
    /\ hpc = "FAILURE"
    /\ result' = [statusCode |-> StatusCode(res.success), body |-> "DBT build completed"]
    /\ hpc' = "DONE"
    /\ UNCHANGED <<event, command, cli_args, invokedArgs, toolCalls, res, exc,
                   hTransfers, invocations>>
    /\ UNCHANGED <<loadVars, storeVars, callVars, shimVars>>

\* the failure branch running the tool again instead of raising
HandlerFailureRetries ==
    /\ hpc = "FAILURE"
    /\ hpc' = "INVOKE"
    /\ UNCHANGED <<event, command, cli_args, invokedArgs, toolCalls, res, result,
                   exc, hTransfers, invocations>>
    /\ UNCHANGED <<loadVars, storeVars, callVars, shimVars>>

\* lines 259-261: raise Exception("DBT build failed")
HandlerFailure ==
    /\ hpc = "FAILURE"
    /\ exc' = "DBT build failed"
    /\ hpc' = "FAILED"
    /\ UNCHANGED <<event, command, cli_args, invokedArgs, toolCalls, res, result,
                   hTransfers, invocations>>
    /\ UNCHANGED <<loadVars, storeVars, callVars, shimVars>>

(***************************************************************************)
(* Spec: the module loads, then the handler is invoked again and again     *)
(***************************************************************************)
Init ==
    /\ loadpc = "imports"
    /\ synchronize = [k \in PrimitiveKinds |-> k]
    /\ patchCalls = 0
    /\ dbtImported = {}
    /\ credentials = None
    /\ dirsMade = {}
    /\ \E e \in EnvironmentValues, b \in BucketValues :
        environ = [ENVIRONMENT |-> e, DBT_STATE_BUCKET |-> b,
                   DBT_LOG_PATH |-> Unset, DBT_TARGET_PATH |-> Unset,
                   DBT_PROFILES_DIR |-> Unset, DBT_USER_CONFIG_DIR |-> Unset]
    /\ runner = None
    /\ default_args = <<>>
    /\ hpc = "IDLE"
    /\ event = <<>>
    /\ command = <<>>
    /\ cli_args = <<>>
    /\ invokedArgs = <<>>
    /\ toolCalls = 0
    /\ invocations = 0
    /\ hTransfers = 0
    /\ res = NoRes
    /\ result = NoResult
    /\ exc = None
    /\ targetDir = EmptyDir
    /\ baseDir = EmptyDir
    /\ remote = [p \in Prefixes |-> EmptyDir]
    /\ lastCall = None
    /\ callStatus = None
    /\ callTransfers = 0
    /\ callLog = None
    /\ syncRuns = 0
    /\ InitShim

Next ==
    \/ LoadImports
    \/ LoadPatch
    \/ LoadCredentials
    \/ LoadRunnerImport
    \/ LoadMakedirs
    \/ LoadEnviron
    \/ LoadRunner
    \/ LoadDefaultArgs
    \/ HandlerStart
    \/ HandlerInvoke
    \/ HandlerSuccess
    \/ HandlerFailure

Spec == Init /\ [][Next]_vars

\* SpecLive: Spec, with every statement of a started invocation eventually
\* run (the interpreter runs them in order and dbt.invoke returns); when the
\* next invocation starts is up to the caller. handler reads no environment
\* variable, so the process is taken with state continuity configured.
InitLive == Init /\ environ["DBT_STATE_BUCKET"] = "my-bucket"

SpecLive ==
    /\ InitLive
    /\ [][Next]_vars
    /\ WF_vars(HandlerInvoke)
    /\ WF_vars(HandlerSuccess)
    /\ WF_vars(HandlerFailure)

(***************************************************************************)
(* SpecSync: the two state-continuity functions called on the loaded       *)
(* module, between tool runs that rewrite /tmp/target                      *)
(***************************************************************************)
\* the state the module load ends in, for each configuration and dbt version
InitLoaded ==
    /\ loadpc = "loaded"
    /\ synchronize = [k \in PrimitiveKinds |-> MockClass(k)]
    /\ patchCalls = 1
    /\ \E c \in {"dbt.adapters.base", "dbt.adapters.contracts.connection", "missing"} :
        /\ credentials = c
        /\ dbtImported = {"dbt.adapters.base", "dbt.cli.main"}
                \cup (IF c = "dbt.adapters.contracts.connection" THEN {c} ELSE {})
    /\ dirsMade = {"/tmp/logs", "/tmp/target", "/tmp/target-base"}
    /\ \E e \in EnvironmentValues, b \in BucketValues :
        /\ environ = [ENVIRONMENT |-> e, DBT_STATE_BUCKET |-> b,
                      DBT_LOG_PATH |-> "/tmp/logs", DBT_TARGET_PATH |-> "/tmp/target",
                      DBT_PROFILES_DIR |-> ".", DBT_USER_CONFIG_DIR |-> "/tmp"]
        /\ default_args = DefaultArgs
    /\ runner = "dbtRunner"
    /\ hpc = "IDLE"
    /\ event = <<>>
    /\ command = <<>>
    /\ cli_args = <<>>
    /\ invokedArgs = <<>>
    /\ toolCalls = 0
    /\ invocations = 0
    /\ hTransfers = 0
    /\ res = NoRes
    /\ result = NoResult
    /\ exc = None
    /\ targetDir = EmptyDir
    /\ baseDir = EmptyDir
    /\ remote = [p \in Prefixes |-> EmptyDir]
    /\ lastCall = None
    /\ callStatus = None
    /\ callTransfers = 0
    /\ callLog = None
    /\ syncRuns = 0
    /\ InitShim

RestoreCall ==
    /\ loadpc = "loaded"
    /\ \E o \in TransferOutcomes : \E done \in Handled(o) : restore_target_from_s3(o, done)
    /\ UNCHANGED <<loadVars, handlerVars, shimVars>>

SyncCall ==
    /\ loadpc = "loaded"
    /\ \E o \in TransferOutcomes : \E done \in Handled(o) : sync_target_to_s3(o, done)
    /\ UNCHANGED <<loadVars, handlerVars, shimVars>>

\* a dbt run rewrites /tmp/target (what line 252 does to the directory)
ToolWrite ==
    /\ loadpc = "loaded"
    /\ \E out \in Dirs : targetDir' = out
    /\ lastCall' = "tool"
    /\ syncRuns' = 0
    /\ UNCHANGED <<callStatus, callTransfers, callLog>>
    /\ UNCHANGED <<loadVars, handlerVars, baseDir, remote, shimVars>>

NextSync ==
    \/ RestoreCall
    \/ SyncCall
    \/ ToolWrite

\* neither function reads what the Credentials shim did: one dbt version is enough
InitSync == InitLoaded /\ credentials = "dbt.adapters.contracts.connection"

SpecSync == InitSync /\ [][NextSync]_vars

(***************************************************************************)
(* SpecEnv: SpecSync in a process where os.environ["ENVIRONMENT"] is       *)
(* assigned after the module was loaded                                    *)
(***************************************************************************)
\* os.environ is process-wide and writable (lines 106-109 write to it);
\* default_args read ENVIRONMENT on line 123, the two functions read it
\* again on lines 135 and 177
EnvironChange ==
    /\ loadpc = "loaded"
    /\ \E e \in EnvironmentValues \ {environ["ENVIRONMENT"]} :
        environ' = [environ EXCEPT !["ENVIRONMENT"] = e]
    /\ lastCall' = "environ"
    /\ syncRuns' = 0
    /\ UNCHANGED <<callStatus, callTransfers, callLog>>
    /\ UNCHANGED <<loadpc, synchronize, patchCalls, dbtImported, credentials,
                   dirsMade, runner, default_args>>
    /\ UNCHANGED <<handlerVars, storeVars, shimVars>>

NextEnv ==
    \/ RestoreCall
    \/ SyncCall
    \/ ToolWrite
    \/ EnvironChange

SpecEnv == InitSync /\ [][NextEnv]_vars

(***************************************************************************)
(* SpecShim: worker threads of the loaded process construct and use the    *)
(* primitives                                                              *)
(***************************************************************************)
ThreadConstruct ==
    \E t \in Threads, p \in Slots, kind \in PrimitiveKinds :
        \E value \in InitialCounts(kind) : Construct(t, p, kind, value)

ThreadAcquire == \E t \in Threads, p \in Slots : Acquire(t, p)

ThreadRelease == \E t \in Threads, p \in Slots : Release(t, p)

ThreadCheckOwned == \E t \in Threads, p \in Slots : CheckOwned(t, p)

NextShim ==
    \/ ThreadConstruct
    \/ ThreadAcquire
    \/ ThreadRelease
    \/ ThreadCheckOwned

SpecShim == InitLoaded /\ [][NextShim]_vars

(***************************************************************************)
(* Properties                                                              *)
(***************************************************************************)
\* SpecSync and SpecShim start where the module load of Spec ends
LoadEndsInInitLoaded == (loadpc = "loaded" /\ hpc = "IDLE") => InitLoaded

ToolFailed == res.called /\ ~res.success
ToolSucceeded == res.called /\ res.success
DefaultCommand == <<"build">>
DefaultCliArgs == <<"--select", "+my_second_dbt_model">>

\* C1: in an invocation whose tool run reported success = false no outbound
\* transfer is started, no result value is returned, and the invocation ends
\* in FAILED by raising "DBT build failed" to its caller.
C1_FailureRaisesWithoutPersist ==
    ToolFailed =>
        /\ hTransfers = 0
        /\ lastCall # "sync"
        /\ result = NoResult
        /\ hpc \in {"FAILURE", "FAILED"}
        /\ hpc = "FAILED" => exc = "DBT build failed"

C1_Witness ==
    /\ hpc = "FAILED"
    /\ ToolFailed
    /\ BucketConfigured(environ["DBT_STATE_BUCKET"])
    /\ targetDir # EmptyDir

\* C2: an invocation with a bucket configured whose tool run succeeded has
\* started exactly one outbound mirror transfer by the time it returns.
C2_SuccessPersistsOnce ==
    (hpc = "DONE" /\ ToolSucceeded /\ BucketConfigured(environ["DBT_STATE_BUCKET"])) =>
        hTransfers = 1

C6_ResultIs200 ==
    /\ result # NoResult =>
        /\ result.statusCode = 200
        /\ result.body = "DBT build completed"
        /\ ToolSucceeded
    /\ result.statusCode # 500

C6_Witness == hpc = "DONE" /\ result.statusCode = 200 /\ ToolSucceeded

\* C7: the command handler uses is never empty; a request without "command"
\* gets ["build"], one without "cli_args" gets
\* ["--select", "+my_second_dbt_model"].
C7_CommandNeverEmpty ==
    hpc \in {"INVOKE", "SUCCESS", "FAILURE", "DONE"} =>
        /\ command # <<>>
        /\ "command" \notin DOMAIN event => command = DefaultCommand
        /\ "cli_args" \notin DOMAIN event => cli_args = DefaultCliArgs

\* C9: patch_multiprocessing is installed exactly once during the module
\* load, and no dbt module is imported before it is installed.
C9_PatchedOnceBeforeDbt ==
    /\ patchCalls <= 1
    /\ loadpc = "loaded" => patchCalls = 1
    /\ dbtImported # {} => patchCalls >= 1

CalledStateOp == lastCall \in {"restore", "sync"}

\* C3: with DBT_STATE_BUCKET unset or empty, a call of
\* restore_target_from_s3 or sync_target_to_s3 starts no transfer, returns
\* normally and leaves /tmp/target-base, /tmp/target and S3 as they were.
C3_NoBucketNoOp ==
    [][(lastCall' \in {"restore", "sync"} /\ environ["DBT_STATE_BUCKET"] \in {Unset, ""}) =>
          /\ callTransfers' = 0
          /\ callStatus' = "returned"
          /\ UNCHANGED <<targetDir, baseDir, remote>>]_vars

C3_Witness ==
    /\ lastCall = "sync"
    /\ environ["DBT_STATE_BUCKET"] = ""
    /\ callStatus = "returned"
    /\ callLog = "WARNING: bucket not set"
    /\ targetDir # EmptyDir

\* C4: with a bucket configured, restore_target_from_s3 and
\* sync_target_to_s3 return normally whatever the transfer does: exit code
\* 0, a non-zero exit code, or an exception from launching or running it.
C4_TransferFailureSwallowed ==
    (CalledStateOp /\ environ["DBT_STATE_BUCKET"] \notin {Unset, ""}) =>
        /\ callTransfers = 1
        /\ callStatus = "returned"

C4_Witness ==
    /\ lastCall = "sync"
    /\ environ["DBT_STATE_BUCKET"] = "my-bucket"
    /\ callLog = "ERROR: sync failed"
    /\ callStatus = "returned"

C8_ScopedAcquisitionCompletes ==
    /\ \A t \in Threads : tstatus[t] = "running"
    /\ \A p \in Slots : prims[p] # NoPrim => prims[p].cls = MockClass("RLock")
            \/ prims[p].cls = MockClass("Lock")
            \/ prims[p].cls = MockClass("Semaphore")
            \/ prims[p].cls = MockClass("BoundedSemaphore")
    /\ \A t \in Threads, p \in Slots :
        (prims[p] # NoPrim /\ \A u \in Threads \ {t} : holds[u][p] = 0) =>
            /\ (holds[t][p] = 0
                    /\ (prims[p].cls \in {"MockSemaphore", "MockBoundedSemaphore"}
                            => prims[p].initial = 1))
                => CanAcquire(prims[p], t)
            /\ (prims[p].cls = "MockRLock" /\ holds[t][p] > 0)
                => CanAcquire(prims[p], t)

C8_Witness ==
    \E t \in Threads, p \in Slots, q \in Slots :
        /\ prims[p].cls = "MockRLock"
        /\ holds[t][p] = 2
        /\ prims[q].cls = "MockBoundedSemaphore"
        /\ prims[q].initial = 1
        /\ holds[t][q] = 1

\* C11: once an invocation with a bucket configured has returned, the prefix
\* <bucket>/<environment>/target/ holds exactly the files the successful
\* tool run left in /tmp/target.
C11_RemoteHoldsLatestOutput ==
    (hpc = "DONE" /\ ToolSucceeded /\ BucketConfigured(environ["DBT_STATE_BUCKET"])) =>
        remote[S3Path(environ["DBT_STATE_BUCKET"], Getenv("ENVIRONMENT", "dev"))] = targetDir

\* the places of an option in an argument list, and the value that follows
\* its last occurrence
Positions(args, opt) == {i \in 1..Len(args) : args[i] = opt}
Max(S) == CHOOSE x \in S : \A y \in S : y <= x
Min(S) == CHOOSE x \in S : \A y \in S : x <= y
LastValue(args, opt) == args[Max(Positions(args, opt)) + 1]

\* C12: the fixed arguments hold two --target selectors, first the
\* hardcoded dev and later the value of ENVIRONMENT (default "dev"); in the
\* list handed to the tool they keep that order, so among the two the
\* environment-driven one is the last.
C12_EnvironmentTargetLast ==
    /\ loadpc = "loaded" =>
        /\ Cardinality(Positions(default_args, "--target")) = 2
        /\ default_args[Min(Positions(default_args, "--target")) + 1] = "dev"
        /\ LastValue(default_args, "--target") = Getenv("ENVIRONMENT", "dev")
    /\ res.called =>
        LET fixed == SubSeq(invokedArgs, Len(command) + 1, Len(command) + Len(default_args))
        IN  /\ fixed = default_args
            /\ LastValue(fixed, "--target") = Getenv("ENVIRONMENT", "dev")

C12_Witness ==
    /\ res.called
    /\ environ["ENVIRONMENT"] = "prod"
    /\ command # <<>>
    /\ cli_args # <<>>

\* C18: default_args is the list built at load time after any number of
\* invocations, and the list handed to the tool is this request's command,
\* then default_args, then this request's cli_args, with nothing left over
\* from an earlier request.
C18_ArgsFreshEachInvocation ==
    /\ loadpc = "loaded" => default_args = DefaultArgs
    /\ res.called =>
        invokedArgs = EventGet(event, "command", DefaultCommand).value
                        \o DefaultArgs
                        \o EventGet(event, "cli_args", DefaultCliArgs).value

C18_Witness ==
    /\ invocations = 2
    /\ res.called
    /\ DOMAIN event = {}
    /\ invokedArgs = DefaultCommand \o DefaultArgs \o DefaultCliArgs

\* the moves of one invocation
HandlerMoves ==
    {<<"IDLE", "INVOKE">>, <<"DONE", "INVOKE">>, <<"FAILED", "INVOKE">>,
     <<"INVOKE", "SUCCESS">>, <<"INVOKE", "FAILURE">>,
     <<"SUCCESS", "DONE">>, <<"FAILURE", "FAILED">>}

\* C13: an invocation moves START -> INVOKE -> SUCCESS -> DONE or
\* START -> INVOKE -> FAILURE -> FAILED and in no other way; the tool has
\* been called exactly once when it reports and is never called again, no
\* restore runs after the tool call and no persist without a success, and
\* every started invocation reaches DONE or FAILED.
C13_InvocationStateMachine ==
    /\ [](/\ toolCalls <= 1
          /\ hpc = "INVOKE" => (toolCalls = 0 /\ ~res.called /\ lastCall = None)
          /\ hpc \in {"SUCCESS", "FAILURE", "DONE", "FAILED"} => (toolCalls = 1 /\ res.called)
          /\ hpc \in {"SUCCESS", "DONE"} => ToolSucceeded
          /\ hpc \in {"FAILURE", "FAILED"} => ToolFailed
          /\ hTransfers > 0 => ToolSucceeded
          /\ (res.called /\ lastCall # None) => (lastCall = "sync" /\ ToolSucceeded))
    /\ [][hpc' # hpc => <<hpc, hpc'>> \in HandlerMoves]_vars
    /\ (hpc = "INVOKE") ~> (hpc \in {"DONE", "FAILED"})

C13_Witness ==
    /\ invocations = 2
    /\ hpc = "FAILED"
    /\ toolCalls = 1

Holders(p) == {t \in Threads : holds[t][p] > 0}
RECURSIVE HeldBy(_, _)
HeldBy(S, p) ==
    IF S = {} THEN 0
    ELSE LET t == CHOOSE x \in S : TRUE IN holds[t][p] + HeldBy(S \ {t}, p)

\* C14: whatever the interleaving of threads that acquire and later release,
\* a MockLock is held by at most one thread, once; a MockRLock by at most
\* one thread, which owns it until it has released it as often as it
\* acquired it; a MockSemaphore or MockBoundedSemaphore built with count
\* `value` by at most `value` acquisitions, so by at most `value` threads.
C14_MutualExclusion ==
    \A p \in Slots :
        /\ prims[p].cls = "MockLock" =>
            /\ Cardinality(Holders(p)) <= 1
            /\ HeldBy(Threads, p) <= 1
            /\ prims[p].locked <=> Holders(p) # {}
        /\ prims[p].cls = "MockRLock" =>
            /\ Cardinality(Holders(p)) <= 1
            /\ prims[p].count = HeldBy(Threads, p)
            /\ \A t \in Holders(p) : prims[p].owner = t
            /\ Holders(p) = {} => prims[p].owner = None
        /\ prims[p].cls \in {"MockSemaphore", "MockBoundedSemaphore"} =>
            /\ HeldBy(Threads, p) <= prims[p].initial
            /\ Cardinality(Holders(p)) <= prims[p].initial
            /\ prims[p].value = prims[p].initial - HeldBy(Threads, p)

C14_Witness ==
    \E p \in Slots, q \in Slots :
        /\ prims[p].cls = "MockSemaphore"
        /\ prims[p].initial = 2
        /\ Holders(p) = Threads
        /\ prims[q].cls = "MockLock"
        /\ Cardinality(Holders(q)) = 1

\* C15: MockRLock._is_owned() answers True whenever it is called: with the
\* lock free, held by the caller, or held by another thread.
C15_IsOwnedAlwaysTrue ==
    /\ ownedCheck.lock # "none" => ownedCheck.value = TRUE
    /\ \A t \in Threads, p \in Slots :
        prims[p].cls = "MockRLock" => IsOwned(prims[p], t)

C15_Witness ==
    /\ ownedCheck.lock = "other"
    /\ ownedCheck.value = TRUE
    /\ \E t \in Threads, p \in Slots : prims[p].cls = "MockRLock" /\ holds[t][p] > 0

CallPrefix == S3Path(environ["DBT_STATE_BUCKET"], Getenv("ENVIRONMENT", "dev"))

\* C16: with a bucket configured, a restore_target_from_s3 call changes at
\* most /tmp/target-base, and there only by taking files over from the
\* prefix; S3 and /tmp/target stay as they were and the call returns
\* normally whatever the transfer does.
C16_RestoreOneWay ==
    [][(lastCall' = "restore" /\ environ["DBT_STATE_BUCKET"] \notin {Unset, ""}) =>
          /\ remote' = remote
          /\ targetDir' = targetDir
          /\ callStatus' = "returned"
          /\ \A f \in Files : baseDir'[f] \in {baseDir[f], remote[CallPrefix][f]}
          /\ callLog' = "restored" => \A f \in Files :
                remote[CallPrefix][f] # 0 => baseDir'[f] = remote[CallPrefix][f]]_vars

C16_Witness ==
    /\ lastCall = "restore"
    /\ callLog = "restored"
    /\ baseDir # EmptyDir
    /\ baseDir = remote[CallPrefix]
    /\ targetDir # baseDir

\* C17: when restore_target_from_s3 or sync_target_to_s3 starts a transfer,
\* the environment name in its prefix is the one default_args hands to the
\* tool as the last --target.
C17_SameEnvironmentName ==
    (CalledStateOp /\ callTransfers = 1) =>
        Getenv("ENVIRONMENT", "dev") = LastValue(default_args, "--target")

====
